---- MODULE Spec2Model ----
(***************************************************************************)
(* BloomNext POS - Product & Inventory API (src/app.py).                   *)
(*                                                                         *)
(* The store is one SQLite file with two tables, products and              *)
(* inventory_movements.  Every request handler opens its own connection    *)
(* (db_conn) and FastAPI runs the synchronous handlers on a thread pool,   *)
(* so handlers of different requests interleave statement by statement.    *)
(* Python's sqlite3 module opens a transaction implicitly before the       *)
(* first INSERT/UPDATE of a connection (never before a SELECT) and keeps   *)
(* it open until commit(); SQLite lets one connection at a time hold the   *)
(* write lock, and readers see committed data only.                        *)
(*                                                                         *)
(* conn.commit() gives the write lock back; the handlers that answer with  *)
(* a product SELECT it after their commit, in a step of its own, so the    *)
(* row they return may hold what another handler committed in between.     *)
(*                                                                         *)
(* A connection that finds the write lock taken waits for it, for 5 s at   *)
(* most (the default timeout of sqlite3.connect): its writing statement    *)
(* runs once the lock is free, or raises sqlite3.OperationalError          *)
(* ("database is locked") while another connection holds the lock.  Time   *)
(* is not modelled: the statement may raise whenever the lock is taken.    *)
(*                                                                         *)
(* Texts are sequences of one-character strings.  created_at/updated_at    *)
(* and the note column hold wall-clock and free-text values that no        *)
(* statement of the program reads back; they are left out of the rows.     *)
(***************************************************************************)
EXTENDS Integers, Sequences, FiniteSets, TLC

VARIABLES
    products,             \* committed rows of table products, row i has id i
    inventory_movements,  \* committed rows of table inventory_movements
    tx_products,          \* table products as the open write transaction sees it
    tx_movements,         \* table inventory_movements, same
    lock,                 \* holder of SQLite's write lock: a caller, NoHolder, Orphan, Lingering
    call,                 \* per thread: the request being handled and the handler's locals
    response,             \* the response the last step sent (operation, HTTP status), if any
    body,                 \* the rows in that response
    leaked                \* connections a handler left open when it exited

vars == <<products, inventory_movements, tx_products, tx_movements, lock, call, response, body,
          leaked>>

----------------------------------------------------------------------------
(* Bounds of the model *)

\* request threads that run handlers at the same time
Callers == {"t1", "t2"}

\* rows of table products that get created
MaxProducts == 2

\* rows of table inventory_movements that get appended
MaxMovements == 2

\* connections that may be waiting for the garbage collector
MaxLeaked == 2

\* quantities the requests carry
StockInputs == {0, 1}
DeltaInputs == {-1, 0, 1}

\* Field(..., le=1_000_000) of stock_qty, reorder_level, new_qty; delta_qty
\* has ge=-1_000_000 as well
QtyLimit == 1000000

\* class StockAdjustIn: the delta_qty values that pass validation
StockAdjustIn == {d \in DeltaInputs : d \in -QtyLimit..QtyLimit}

\* class StockSetIn, and stock_qty of class ProductIn: the values that pass
StockSetIn == {n \in StockInputs : n \in 0..QtyLimit}

----------------------------------------------------------------------------
(* Optional text: Python None or a str *)

None == [some |-> FALSE, text |-> <<>>]
Some(s) == [some |-> TRUE, text |-> s]

\* the characters for which str.isspace() holds, as far as a string of this
\* module can hold them: space, tab, newline, carriage return, form feed,
\* then (written as the characters themselves) vertical tab U+000B, the
\* separators U+001C to U+001F, next line U+0085, no-break space U+00A0 and
\* the ogham space mark U+1680.  The other spaces (U+2000 to U+200A, U+2028,
\* U+2029, U+202F, U+205F, U+3000) are whitespace to Python as well; no
\* string of a module can hold them.
WhitespaceChars ==
    {" ", "\t", "\n", "\r", "\f", "", "", "", "", "", "", " ",
     " "}

\* str.isspace() of one character
IsSpace(ch) == ch \in WhitespaceChars

RECURSIVE lstrip(_)
lstrip(s) == IF s = <<>> THEN s
             ELSE IF IsSpace(Head(s)) THEN lstrip(Tail(s)) ELSE s

RECURSIVE rstrip(_)
rstrip(s) == IF s = <<>> THEN s
             ELSE IF IsSpace(s[Len(s)]) THEN rstrip(SubSeq(s, 1, Len(s) - 1)) ELSE s

\* str.strip()
strip(s) == rstrip(lstrip(s))

\* (p.barcode.strip() if p.barcode else None): None and "" are falsy
StripOrNone(o) == IF o.some /\ o.text # <<>> THEN Some(strip(o.text)) ELSE None

(* Prices are binary floating point numbers (IEEE 754 double, 53 bits).  A  *)
(* price is given by m, its thousandths: the request carries the decimal  *)
(* m / 1000 and x is the double nearest to it, x = M * 2^-k with M below   *)
(* 2^53.  The operators below work on remainders, so that no number        *)
(* exceeds a few hundred thousand.                                         *)

RECURSIVE Pow2(_)
Pow2(e) == IF e = 0 THEN 1 ELSE 2 * Pow2(e - 1)

\* the a with 2^a <= m / den < 2^(a+1), searched from a upwards or downwards
RECURSIVE ExponentUp(_, _, _)
ExponentUp(m, den, a) ==
    IF m >= den * Pow2(a + 1) THEN ExponentUp(m, den, a + 1) ELSE a

RECURSIVE ExponentDown(_, _, _)
ExponentDown(m, den, a) ==
    IF m * Pow2(-a) < den THEN ExponentDown(m, den, a - 1) ELSE a

BinaryExponent(m, den) ==
    IF m >= den THEN ExponentUp(m, den, 0) ELSE ExponentDown(m, den, 0)

\* (x * 2^k) % n
RECURSIVE TimesPow2Mod(_, _, _)
TimesPow2Mod(x, k, n) ==
    IF k = 0 THEN x % n ELSE TimesPow2Mod((2 * x) % n, k - 1, n)

\* float("m/1000") = (m * 2^k + eps) / 1000 * 2^-k: eps is what rounding
\* m * 2^k / 1000 to the nearest integer (halves to even) adds, times 1000
FloatError(m, k) ==
    LET rem == TimesPow2Mod(m, k, 1000)
        odd == ((TimesPow2Mod(m, k, 2000) - 500) % 2000) \div 1000
    IN  IF rem < 500 THEN -rem
        ELSE IF rem > 500 THEN 1000 - rem
        ELSE IF odd = 1 THEN 500 ELSE -500

\* m / den + eps * tiny >= 2^b
AtLeastPow2(m, den, b, eps) ==
    LET l == IF b >= 0 THEN m ELSE m * Pow2(-b)
        r == IF b >= 0 THEN den * Pow2(b) ELSE den
    IN  l > r \/ (l = r /\ eps >= 0)

\* x * 100 is (100 * M + eta) * 2^-k: eta is what rounding 100 * M to 53
\* bits (halves to even) adds; mlow is M % 256, grid the 2^6 or 2^7 that
\* the 53 bits leave out
ProductError(mlow, grid) ==
    LET low == (100 * mlow) % grid
        odd == ((100 * mlow) % (2 * grid)) \div grid
    IN  IF 2 * low < grid THEN -low
        ELSE IF 2 * low > grid THEN grid - low
        ELSE IF odd = 1 THEN grid \div 2 ELSE -(grid \div 2)

\* the sign of x * 100 - m / 10 for x = float("m/1000"), m > 0
ProductMinusDecimal(m) ==
    LET a == BinaryExponent(m, 1000)
        k == 52 - a
        eps == FloatError(m, k)
        mlow == ((TimesPow2Mod(m, k, 256000) + eps) % 256000) \div 1000
        grid == IF AtLeastPow2(m, 10, a + 7, eps) THEN Pow2(7) ELSE Pow2(6)
    IN  eps + 10 * ProductError(mlow, grid)

\* int(round(x * 100)) for x = float("m/1000"): round() takes the product
\* to the nearest integer, and to the even one when the product is a half;
\* the product is within 2^-20 of m / 10
dollars_to_cents(m) ==
    LET q == m \div 10
        r == m % 10
        d == ProductMinusDecimal(m)
    IN  IF r < 5 THEN q
        ELSE IF r > 5 THEN q + 1
        ELSE IF d > 0 THEN q + 1
        ELSE IF d < 0 THEN q
        ELSE IF q % 2 = 0 THEN q ELSE q + 1

----------------------------------------------------------------------------
(* Requests *)

\* barcode as the request carries it: absent, "", a tab, "a", "a" and a
\* newline
BarcodeInputs == {None, Some(<<>>), Some(<<"\t">>), Some(<<"a">>), Some(<<"\n", "a", " ">>)}

\* class ProductIn; price and cost in thousandths of a dollar (0.545 here)
ProductIn(barcode, price, stock_qty, reorder_level, active) ==
    [name |-> <<"\t", "n", " ">>, barcode |-> barcode, sku |-> None,
     category |-> Some(<<" ", "c", "\r">>),
     unit |-> "each", price |-> price, cost |-> 0, taxable |-> TRUE,
     stock_qty |-> stock_qty, reorder_level |-> reorder_level, active |-> active]

\* the products the catalog requests carry
CatalogInputs ==
    { ProductIn(b, 545, 0, 0, TRUE) : b \in BarcodeInputs }

\* the products the requests carry when every handler runs
ProductInputs ==
    { ProductIn(None, 545, 1, 0, TRUE) }

\* ids a request may name: every row that can exist, so some are missing early on
ProductIds == 1..MaxProducts

----------------------------------------------------------------------------
(* The store *)

NoHolder == "free"

\* the write lock held by the transaction of a connection left open
Orphan == "orphan"

\* the write lock held by the transaction of a connection that was closed
\* while a cursor of it is alive
Lingering == "lingering"

\* price and cost the requests carry, in thousandths of a dollar
PriceInputs == {0, 545}

\* dollars_to_cents of the prices the requests carry, computed once
CentsOfInputs == [m \in PriceInputs |-> dollars_to_cents(m)]

\* dollars_to_cents(m)
Cents(m) == IF m \in PriceInputs THEN CentsOfInputs[m] ELSE dollars_to_cents(m)

\* the column values create_product and update_product bind from a ProductIn
ProductValues(p) ==
    [name |-> strip(p.name),
     barcode |-> StripOrNone(p.barcode),
     sku |-> StripOrNone(p.sku),
     category |-> StripOrNone(p.category),
     unit |-> p.unit,
     price_cents |-> Cents(p.price),
     cost_cents |-> Cents(p.cost),
     taxable |-> IF p.taxable THEN 1 ELSE 0,
     stock_qty |-> p.stock_qty,
     reorder_level |-> p.reorder_level,
     active |-> IF p.active THEN 1 ELSE 0]

\* barcode TEXT UNIQUE: a non-NULL barcode equal to that of another row
\* raises sqlite3.IntegrityError (row 0 is no row: an INSERT)
BarcodeTaken(rows, barcode, own_id) ==
    /\ barcode.some
    /\ \E i \in 1..Len(rows) : i # own_id /\ rows[i].barcode = barcode

\* get_product_row: the row, or HTTP 404 when fetchone() returns nothing
ProductExists(rows, product_id) == product_id \in 1..Len(rows)

\* the row INSERT INTO inventory_movements adds; its id is its position
Movement(product_id, type, delta_qty, resulting_qty) ==
    [product_id |-> product_id, type |-> type,
     delta_qty |-> delta_qty, resulting_qty |-> resulting_qty]

\* mutant: the UPDATE has no WHERE clause
SetStockQtyEveryRow(rows, product_id, new_qty) ==
    [i \in 1..Len(rows) |-> [rows[i] EXCEPT !.stock_qty = new_qty]]

\* UPDATE products SET stock_qty=?, updated_at=? WHERE id=?
SetStockQty(rows, product_id, new_qty) ==
    [rows EXCEPT ![product_id].stock_qty = new_qty]

\* mutant: the row is deleted
SetInactiveDeletes(rows, product_id) ==
    SubSeq(rows, 1, product_id - 1) \o SubSeq(rows, product_id + 1, Len(rows))

\* UPDATE products SET active=0, updated_at=? WHERE id=?
SetInactive(rows, product_id) ==
    [rows EXCEPT ![product_id].active = 0]

----------------------------------------------------------------------------
(* Handlers *)

\* the ProductIn among the handler's locals, as a sequence of one: here none
NoPayload == <<>>

IdleCall == [pc |-> "idle", op |-> "none", product_id |-> 0, qty |-> 0,
             current |-> 0, new_qty |-> 0, payload |-> NoPayload]

NoResponse == [op |-> "none", status |-> 0]

NoBody == <<>>

StockOps == {"adjust", "receive", "set"}

\* a thread takes the next request when its handler has returned
Ready(k) == call[k].pc = "idle"

\* stock handlers between their SELECT and their commit, each about to
\* append one movement
InFlight == {k \in Callers : call[k].op \in StockOps}

\* bound of the model: no more than MaxMovements movements get appended
RoomForMovement == Len(inventory_movements) + Cardinality(InFlight) < MaxMovements

Init ==
    /\ products = <<>>
    /\ inventory_movements = <<>>
    /\ tx_products = <<>>
    /\ tx_movements = <<>>
    /\ lock = NoHolder
    /\ call = [k \in Callers |-> IdleCall]
    /\ response = NoResponse
    /\ body = NoBody
    /\ leaked = 0

\* a step in which no handler returns sends no response
SendsNothing ==
    /\ response' = NoResponse
    /\ body' = NoBody

\* the handler raises while its connection is open: nothing closes it
\* (bound of the model: no more than MaxLeaked connections await collection)
RaiseOpen(k, op, status) ==
    /\ leaked < MaxLeaked
    /\ leaked' = leaked + 1
    /\ call' = [call EXCEPT ![k] = IdleCall]
    /\ response' = [op |-> op, status |-> status]
    /\ body' = NoBody

\* the handler returns or raises with its connection closed (or never opened)
ReturnClosed(k, op, status) ==
    /\ leaked' = leaked
    /\ call' = [call EXCEPT ![k] = IdleCall]
    /\ response' = [op |-> op, status |-> status]
    /\ body' = NoBody

\* the handler goes on to its next statement (the rows of the GET response
\* before it are kept no longer)
Continue(k, pc, op, product_id, qty, current, new_qty) ==
    /\ leaked' = leaked
    /\ SendsNothing
    /\ call' = [call EXCEPT ![k] =
           [pc |-> pc, op |-> op, product_id |-> product_id, qty |-> qty,
            current |-> current, new_qty |-> new_qty, payload |-> NoPayload]]

\* update_product goes on from get_product_row to its UPDATE
ContinueUpdate(k, product_id, p) ==
    /\ leaked' = leaked
    /\ SendsNothing
    /\ call' = [call EXCEPT ![k] =
           [pc |-> "selected", op |-> "update", product_id |-> product_id, qty |-> 0,
            current |-> 0, new_qty |-> 0, payload |-> <<p>>]]

\* mutant: the delta is taken off instead of added
AdjustedQtyWrongSign(current, delta_qty) == current - delta_qty

\* new_qty = current + int(payload.delta_qty)
AdjustedQty(current, delta_qty) == current + delta_qty

\* mutant: the guard lets -1 through
BelowZeroOffByOne(new_qty) == new_qty < -1

\* mutant: the guard is missing
BelowZeroNever(new_qty) == FALSE

\* if new_qty < 0: HTTP 400
BelowZero(new_qty) == new_qty < 0

\* mutant: a delta of 0 is let through
NotPositiveButZero(delta_qty) == delta_qty < 0

\* if payload.delta_qty <= 0: HTTP 400
NotPositive(delta_qty) == delta_qty <= 0

\* delta = new_qty - current
SetDelta(new_qty, current) == new_qty - current

\* adjust_stock up to its UPDATE: SELECT the row, compute, validate
adjust_stock(k, product_id, delta_qty) ==
    /\ Ready(k)
    /\ UNCHANGED <<products, inventory_movements, tx_products, tx_movements, lock>>
    /\ IF ~ProductExists(products, product_id)
       THEN RaiseOpen(k, "adjust", 404)
       ELSE LET current == products[product_id].stock_qty
                new_qty == AdjustedQty(current, delta_qty)
            IN  IF BelowZero(new_qty)
                THEN ReturnClosed(k, "adjust", 400)
                ELSE /\ RoomForMovement
                     /\ Continue(k, "read", "adjust", product_id, delta_qty, current, new_qty)

\* receive_stock up to its UPDATE
receive_stock(k, product_id, delta_qty) ==
    /\ Ready(k)
    /\ UNCHANGED <<products, inventory_movements, tx_products, tx_movements, lock>>
    /\ IF NotPositive(delta_qty)
       THEN ReturnClosed(k, "receive", 400)
       ELSE IF ~ProductExists(products, product_id)
       THEN RaiseOpen(k, "receive", 404)
       ELSE LET current == products[product_id].stock_qty
                new_qty == AdjustedQty(current, delta_qty)
            IN  /\ RoomForMovement
                /\ Continue(k, "read", "receive", product_id, delta_qty, current, new_qty)

\* set_stock up to its UPDATE
set_stock(k, product_id, new_qty) ==
    /\ Ready(k)
    /\ UNCHANGED <<products, inventory_movements, tx_products, tx_movements, lock>>
    /\ IF ~ProductExists(products, product_id)
       THEN RaiseOpen(k, "set", 404)
       ELSE LET current == products[product_id].stock_qty
            IN  /\ RoomForMovement
                /\ Continue(k, "read", "set", product_id, new_qty, current, new_qty)

\* the delta_qty a stock handler binds in its INSERT
MovementDelta(c) ==
    IF c.op = "set" THEN SetDelta(c.new_qty, c.current) ELSE c.qty

\* mutant: a connection in autocommit mode, whose UPDATE is committed at once
UpdateStockAutocommit(k) ==
    /\ call[k].pc = "read"
    /\ lock = NoHolder
    /\ lock' = k
    /\ products' = SetStockQty(products, call[k].product_id, call[k].new_qty)
    /\ tx_products' = products'
    /\ call' = [call EXCEPT ![k].pc = "updated"]
    /\ UNCHANGED <<inventory_movements, tx_movements, leaked>>
    /\ SendsNothing

\* cur.execute("UPDATE products SET stock_qty=? ..."): the connection's first
\* write opens its transaction and takes the write lock
UpdateStock(k) ==
    /\ call[k].pc = "read"
    /\ lock = NoHolder
    /\ lock' = k
    /\ tx_products' = SetStockQty(products, call[k].product_id, call[k].new_qty)
    /\ call' = [call EXCEPT ![k].pc = "updated"]
    /\ UNCHANGED <<products, inventory_movements, tx_movements, leaked>>
    /\ SendsNothing

\* mutant: the movement records the quantity read, not the one written
InsertMovementStale(k) ==
    /\ call[k].pc = "updated"
    /\ lock = k
    /\ tx_movements' = Append(tx_movements,
            Movement(call[k].product_id, call[k].op, MovementDelta(call[k]), call[k].current))
    /\ call' = [call EXCEPT ![k].pc = "written"]
    /\ UNCHANGED <<products, inventory_movements, tx_products, lock, leaked>>
    /\ SendsNothing

\* cur.execute("INSERT INTO inventory_movements ...") in the same transaction
InsertMovement(k) ==
    /\ call[k].pc = "updated"
    /\ lock = k
    /\ tx_movements' = Append(tx_movements,
            Movement(call[k].product_id, call[k].op, MovementDelta(call[k]), call[k].new_qty))
    /\ call' = [call EXCEPT ![k].pc = "written"]
    /\ UNCHANGED <<products, inventory_movements, tx_products, lock, leaked>>
    /\ SendsNothing

\* the INSERT raises and no handler catches it: the connection stays open.
\* A statement that fails by itself (a constraint) leaves the transaction
\* open on it, with the write lock, until the connection is collected; on
\* an error such as a full disk SQLite rolls the transaction back at once
InsertFails(k) ==
    /\ call[k].pc = "updated"
    /\ lock = k
    /\ \/ /\ lock' = Orphan
          /\ UNCHANGED <<tx_products, tx_movements>>
       \/ /\ lock' = NoHolder
          /\ tx_products' = products
          /\ tx_movements' = inventory_movements
    /\ RaiseOpen(k, call[k].op, 500)
    /\ UNCHANGED <<products, inventory_movements>>

\* what conn.commit() makes of a table: the transaction's rows replace the
\* committed ones
Committed(rows, tx_rows) == tx_rows

\* conn.commit(): the transaction's rows are published and the write lock
\* is free again; the handler has not returned yet
Commit(k) ==
    /\ call[k].pc = "written"
    /\ lock = k
    /\ products' = Committed(products, tx_products)
    /\ inventory_movements' = Committed(inventory_movements, tx_movements)
    /\ tx_products' = products'
    /\ tx_movements' = inventory_movements'
    /\ lock' = NoHolder
    /\ call' = [call EXCEPT ![k].pc = "committed"]
    /\ UNCHANGED leaked
    /\ SendsNothing

\* the UPDATE of a stock handler has waited for the write lock until the
\* timeout: sqlite3.OperationalError, which no handler catches; the
\* connection stays open
UpdateStockTimesOut(k) ==
    /\ call[k].pc = "read"
    /\ lock # NoHolder
    /\ UNCHANGED <<products, inventory_movements, tx_products, tx_movements, lock>>
    /\ RaiseOpen(k, call[k].op, 500)

\* the interpreter frees connections, cursors and exceptions nothing refers
\* to, those of one request or of several: n connections left open are
\* closed, and with release the transaction that held the write lock is
\* rolled back.  An orphan transaction goes with its connection, which is
\* one of those left open
Collect(n, release) ==
    /\ n \in 0..leaked
    /\ n > 0 \/ release
    /\ release => lock \in {Orphan, Lingering}
    /\ lock = Orphan => /\ release => n > 0
                        /\ n = leaked => release
    /\ leaked' = leaked - n
    /\ lock' = IF release THEN NoHolder ELSE lock
    /\ tx_products' = IF release THEN products ELSE tx_products
    /\ tx_movements' = IF release THEN inventory_movements ELSE tx_movements
    /\ UNCHANGED <<products, inventory_movements, call>>
    /\ SendsNothing

\* what becomes of the write lock when an INSERT or UPDATE that took it
\* raises sqlite3.IntegrityError and the handler closes the connection in
\* its finally block: conn.close() gives the lock back, or (CPython 3.11)
\* the lock stays taken as long as the exception keeps the handler's
\* cursor alive
LockAfterIntegrityError == {NoHolder, Lingering}

\* create_product up to its commit: the INSERT opens the transaction, or
\* times out waiting for the write lock (the except clause does not catch
\* sqlite3.OperationalError; finally closes the connection)
create_product(k, p) ==
    /\ Ready(k)
    /\ UNCHANGED <<products, inventory_movements, tx_movements>>
    /\ IF lock # NoHolder
       THEN /\ ReturnClosed(k, "create", 500)
            /\ UNCHANGED <<tx_products, lock>>
       ELSE IF BarcodeTaken(products, ProductValues(p).barcode, 0)
       THEN /\ ReturnClosed(k, "create", 409)
            /\ lock' \in LockAfterIntegrityError
            /\ UNCHANGED tx_products
       ELSE /\ Len(products) < MaxProducts
            /\ tx_products' = Append(products, ProductValues(p))
            /\ lock' = k
            /\ Continue(k, "written", "create", Len(products) + 1, 0, 0, 0)

\* update_product: get_product_row, a SELECT that needs no lock
update_product(k, product_id, p) ==
    /\ Ready(k)
    /\ UNCHANGED <<products, inventory_movements, tx_products, tx_movements, lock>>
    /\ IF ~ProductExists(products, product_id)
       THEN RaiseOpen(k, "update", 404)
       ELSE ContinueUpdate(k, product_id, p)

\* the UPDATE of update_product: it opens the transaction, raises
\* IntegrityError on a barcode another row holds, or times out waiting for
\* the write lock; finally closes the connection
UpdateProduct(k) ==
    /\ call[k].pc = "selected"
    /\ call[k].op = "update"
    /\ UNCHANGED <<products, inventory_movements, tx_movements>>
    /\ IF lock # NoHolder
       THEN /\ ReturnClosed(k, "update", 500)
            /\ UNCHANGED <<tx_products, lock>>
       ELSE IF BarcodeTaken(products, ProductValues(Head(call[k].payload)).barcode,
                            call[k].product_id)
       THEN /\ ReturnClosed(k, "update", 409)
            /\ lock' \in LockAfterIntegrityError
            /\ UNCHANGED tx_products
       ELSE /\ tx_products' =
                   [products EXCEPT ![call[k].product_id] = ProductValues(Head(call[k].payload))]
            /\ lock' = k
            /\ call' = [call EXCEPT ![k].pc = "written"]
            /\ UNCHANGED leaked
            /\ SendsNothing

\* deactivate_product: get_product_row
deactivate_product(k, product_id) ==
    /\ Ready(k)
    /\ UNCHANGED <<products, inventory_movements, tx_products, tx_movements, lock>>
    /\ IF ~ProductExists(products, product_id)
       THEN RaiseOpen(k, "deactivate", 404)
       ELSE Continue(k, "selected", "deactivate", product_id, 0, 0, 0)

\* the UPDATE of deactivate_product: it opens the transaction, or times out
\* waiting for the write lock and leaves the connection open
DeactivateProduct(k) ==
    /\ call[k].pc = "selected"
    /\ call[k].op = "deactivate"
    /\ UNCHANGED <<products, inventory_movements, tx_movements>>
    /\ IF lock # NoHolder
       THEN /\ RaiseOpen(k, "deactivate", 500)
            /\ UNCHANGED <<tx_products, lock>>
       ELSE /\ tx_products' = SetInactive(products, call[k].product_id)
            /\ lock' = k
            /\ call' = [call EXCEPT ![k].pc = "written"]
            /\ UNCHANGED leaked
            /\ SendsNothing

----------------------------------------------------------------------------
(* GET handlers: SELECTs on the committed tables, no transaction *)

\* round(c / 100.0, 2), in thousandths of a dollar
cents_to_dollars(c) == c * 10

\* row_product_to_out: the ProductOut of row r, whose id is its position
row_product_to_out(id, r) ==
    [id |-> id, name |-> r.name, barcode |-> r.barcode, sku |-> r.sku,
     category |-> r.category, unit |-> r.unit,
     price |-> cents_to_dollars(r.price_cents), cost |-> cents_to_dollars(r.cost_cents),
     taxable |-> r.taxable # 0, stock_qty |-> r.stock_qty,
     reorder_level |-> r.reorder_level, active |-> r.active # 0]

\* InventoryMoveOut of movement m, whose id is its position
InventoryMoveOut(id, m) ==
    [id |-> id, product_id |-> m.product_id, type |-> m.type,
     delta_qty |-> m.delta_qty, resulting_qty |-> m.resulting_qty]

\* the handler returns rows after conn.close()
ReturnRows(k, op, rows) ==
    /\ leaked' = leaked
    /\ call' = [call EXCEPT ![k] = IdleCall]
    /\ response' = [op |-> op, status |-> 200]
    /\ body' = rows

\* a writing handler after its commit: the SELECT of the product for the
\* response (deactivate_product answers without one), conn.close(), return
Respond(k) ==
    /\ call[k].pc = "committed"
    /\ UNCHANGED <<products, inventory_movements, tx_products, tx_movements, lock>>
    /\ IF call[k].op = "deactivate"
       THEN ReturnClosed(k, "deactivate", 200)
       ELSE ReturnRows(k, call[k].op,
                <<row_product_to_out(call[k].product_id, products[call[k].product_id])>>)

\* the most rows a listing returns: limit = max(1, min(limit, 1000))
ListCeiling == 1000

\* the most rows a history returns: limit = max(1, min(limit, 500))
HistoryCeiling == 500

\* limit = max(1, min(limit, top))
ClampLimit(limit, top) ==
    LET low == IF limit < top THEN limit ELSE top
    IN  IF low > 1 THEN low ELSE 1

\* the letters whose case LIKE folds: those of ASCII, and no other
UpperChars == <<"A", "B", "C", "D", "E", "F", "G", "H", "I", "J", "K", "L", "M",
                "N", "O", "P", "Q", "R", "S", "T", "U", "V", "W", "X", "Y", "Z">>
LowerChars == <<"a", "b", "c", "d", "e", "f", "g", "h", "i", "j", "k", "l", "m",
                "n", "o", "p", "q", "r", "s", "t", "u", "v", "w", "x", "y", "z">>

FoldCase(ch) ==
    IF \E i \in 1..Len(UpperChars) : UpperChars[i] = ch
    THEN LowerChars[CHOOSE i \in 1..Len(UpperChars) : UpperChars[i] = ch]
    ELSE ch

\* text LIKE pattern, as SQLite computes it: % stands for any run of
\* characters, _ for any one character, a letter of ASCII for itself in
\* either case, any other character for itself
RECURSIVE LikeMatch(_, _)
LikeMatch(text, pattern) ==
    IF pattern = <<>> THEN text = <<>>
    ELSE IF Head(pattern) = "%"
    THEN \/ LikeMatch(text, Tail(pattern))
         \/ text # <<>> /\ LikeMatch(Tail(text), pattern)
    ELSE /\ text # <<>>
         /\ Head(pattern) = "_" \/ FoldCase(Head(text)) = FoldCase(Head(pattern))
         /\ LikeMatch(Tail(text), Tail(pattern))

\* qq = f"%{q.strip()}%" and column LIKE qq; q comes stripped
Like(text, q) == LikeMatch(text, <<"%">> \o q \o <<"%">>)

\* the same on a nullable column: NULL LIKE ? is not true
LikeOrNull(o, q) == o.some /\ Like(o.text, q)

\* mutant: strictly below the reorder level
LowStockStrict(r) == r.stock_qty < r.reorder_level

\* where.append("stock_qty <= reorder_level")
LowStock(r) == r.stock_qty <= r.reorder_level

\* the WHERE clause list_products builds, on row r
ListWhere(r, active_only, low_stock_only, q, category) ==
    /\ active_only => r.active = 1
    /\ low_stock_only => LowStock(r)
    /\ (category.some /\ category.text # <<>>) => r.category = Some(strip(category.text))
    /\ (q.some /\ strip(q.text) # <<>>) =>
          \/ Like(r.name, strip(q.text))
          \/ LikeOrNull(r.sku, strip(q.text))
          \/ LikeOrNull(r.barcode, strip(q.text))

\* ORDER BY id DESC: the ids of a table of n rows
DescendingIds(n) == [i \in 1..n |-> n + 1 - i]

\* the rows of products with these ids, as the response holds them
ProductsOut(ids) == [j \in 1..Len(ids) |-> row_product_to_out(ids[j], products[ids[j]])]

\* the rows of inventory_movements with these ids, as the response holds them
MovementsOut(ids) ==
    [j \in 1..Len(ids) |-> InventoryMoveOut(ids[j], inventory_movements[ids[j]])]

\* LIMIT ?
Limit(rows, limit) == SubSeq(rows, 1, IF limit < Len(rows) THEN limit ELSE Len(rows))

\* list_products
list_products(k, active_only, low_stock_only, q, category, limit) ==
    /\ Ready(k)
    /\ UNCHANGED <<products, inventory_movements, tx_products, tx_movements, lock>>
    /\ LET Keep(id) == ListWhere(products[id], active_only, low_stock_only, q, category)
           ids == SelectSeq(DescendingIds(Len(products)), Keep)
       IN  ReturnRows(k, "list", Limit(ProductsOut(ids), ClampLimit(limit, ListCeiling)))

\* get_product
get_product(k, product_id) ==
    /\ Ready(k)
    /\ UNCHANGED <<products, inventory_movements, tx_products, tx_movements, lock>>
    /\ IF ~ProductExists(products, product_id)
       THEN RaiseOpen(k, "get", 404)
       ELSE ReturnRows(k, "get", <<row_product_to_out(product_id, products[product_id])>>)

\* lookup_product: SELECT ... WHERE barcode=? AND active=1 LIMIT 1, None
\* (no row in the body) when nothing matches
lookup_product(k, barcode) ==
    /\ Ready(k)
    /\ UNCHANGED <<products, inventory_movements, tx_products, tx_movements, lock>>
    /\ LET Keep(id) == products[id].barcode = Some(strip(barcode)) /\ products[id].active = 1
           ids == SelectSeq(DescendingIds(Len(products)), Keep)
       IN  ReturnRows(k, "lookup", Limit(ProductsOut(ids), 1))

\* inventory_history: the limit is clamped, then get_product_row
inventory_history(k, product_id, limit) ==
    /\ Ready(k)
    /\ UNCHANGED <<products, inventory_movements, tx_products, tx_movements, lock>>
    /\ IF ~ProductExists(products, product_id)
       THEN RaiseOpen(k, "history", 404)
       ELSE Continue(k, "selected", "history", product_id,
                     ClampLimit(limit, HistoryCeiling), 0, 0)

\* the second SELECT of inventory_history: the movements of the product as
\* they are committed by now, conn.close(), return
SelectMovements(k) ==
    /\ call[k].pc = "selected"
    /\ call[k].op = "history"
    /\ UNCHANGED <<products, inventory_movements, tx_products, tx_movements, lock>>
    /\ LET Keep(id) == inventory_movements[id].product_id = call[k].product_id
           ids == SelectSeq(DescendingIds(Len(inventory_movements)), Keep)
       IN  ReturnRows(k, "history", Limit(MovementsOut(ids), call[k].qty))

----------------------------------------------------------------------------
(* Routing of GET /api/products/<segment> *)

DigitChars == <<"0", "1", "2", "3", "4", "5", "6", "7", "8", "9">>

IsDigit(ch) == \E d \in 1..Len(DigitChars) : DigitChars[d] = ch

DigitValue(ch) == (CHOOSE d \in 1..Len(DigitChars) : DigitChars[d] = ch) - 1

\* the characters the validation of an int takes off both ends of a text
\* (White_Space of Unicode), as far as a string of this module can hold
\* them: those of WhitespaceChars but the separators U+001C to U+001F
WhiteSpace ==
    {" ", "\t", "\n", "\r", "\f", "", "", " ", " "}

RECURSIVE TrimStart(_)
TrimStart(s) == IF s = <<>> THEN s
                ELSE IF Head(s) \in WhiteSpace THEN TrimStart(Tail(s)) ELSE s

RECURSIVE TrimEnd(_)
TrimEnd(s) == IF s = <<>> THEN s
              ELSE IF s[Len(s)] \in WhiteSpace THEN TrimEnd(SubSeq(s, 1, Len(s) - 1)) ELSE s

Trim(s) == TrimEnd(TrimStart(s))

\* a text without the "-" it may start with
Unsigned(s) == IF s # <<>> /\ Head(s) = "-" THEN Tail(s) ELSE s

\* the text of an integer as the parser takes it: digits, after one "-" or
\* none, and no zero before another digit
ParsesAsInt(s) ==
    /\ Unsigned(s) # <<>>
    /\ \A i \in 1..Len(Unsigned(s)) : IsDigit(Unsigned(s)[i])
    /\ Len(Unsigned(s)) > 1 => Unsigned(s)[1] # "0"

\* where the first "." of a text is, 0 when it has none
FirstPoint(s) ==
    IF \E i \in 1..Len(s) : s[i] = "."
    THEN CHOOSE i \in 1..Len(s) : s[i] = "." /\ \A j \in 1..(i - 1) : s[j] # "."
    ELSE 0

\* strip_leading_zeros after the first character, a "0": zeros and
\* underscores are passed over up to the first other digit or "-"; at a "."
\* the zero before it is kept; a text of zeros and underscores only leaves
\* its last character; any other character makes the text invalid
RECURSIVE SkipZeros(_, _)
SkipZeros(s, i) ==
    IF i > Len(s) THEN Some(SubSeq(s, Len(s), Len(s)))
    ELSE IF s[i] \in {"0", "_"} THEN SkipZeros(s, i + 1)
    ELSE IF IsDigit(s[i]) \/ s[i] = "-" THEN Some(SubSeq(s, i, Len(s)))
    ELSE IF s[i] = "." THEN Some(SubSeq(s, i - 1, Len(s)))
    ELSE None

\* strip_leading_zeros: the text must start with a digit
strip_leading_zeros(s) ==
    IF s = <<>> THEN None
    ELSE IF s[1] = "0" THEN SkipZeros(s, 2)
    ELSE IF IsDigit(s[1]) THEN Some(s)
    ELSE None

\* a "." with zeros after it, one at least and nothing else
DecimalZeros(s) ==
    /\ FirstPoint(s) > 0
    /\ FirstPoint(s) < Len(s)
    /\ \A j \in (FirstPoint(s) + 1)..Len(s) : s[j] = "0"

\* the "." and the zeros after it are dropped
strip_decimal_zeros(s) ==
    IF DecimalZeros(s) THEN SubSeq(s, 1, FirstPoint(s) - 1) ELSE s

\* underscores between the characters of a text, one at a time
Underscored(s) ==
    /\ \E i \in 1..Len(s) : s[i] = "_"
    /\ s[1] # "_"
    /\ s[Len(s)] # "_"
    /\ \A i \in 1..(Len(s) - 1) : ~(s[i] = "_" /\ s[i + 1] = "_")

\* strip_underscores: such underscores are dropped
strip_underscores(s) ==
    IF Underscored(s) THEN Some(SelectSeq(s, LAMBDA ch : ch # "_")) ELSE None

\* clean_int_str: one "+" is dropped, then one "-" is set aside, neither
\* with a sign after it; what is left loses its leading zeros, its decimal
\* zeros and its underscores, and gets the "-" back.  A text that nothing
\* was taken from is no integer
clean_int_str(s) ==
    LET plus == s # <<>> /\ s[1] = "+"
        a == IF plus THEN Tail(s) ELSE s
        minus == a # <<>> /\ a[1] = "-"
        b == IF minus THEN Tail(a) ELSE a
        sign == IF minus THEN <<"-">> ELSE <<>>
        z == strip_leading_zeros(b)
        d == strip_decimal_zeros(z.text)
        u == strip_underscores(d)
    IN  IF plus /\ minus THEN None
        ELSE IF minus /\ b # <<>> /\ b[1] \in {"+", "-"} THEN None
        ELSE IF ~z.some THEN None
        ELSE IF u.some THEN Some(sign \o u.text)
        ELSE IF Len(d) = Len(s) THEN None
        ELSE Some(sign \o d)

\* the text that is parsed for the segment: the segment trimmed when that
\* is the text of an integer, else what clean_int_str makes of it
IntText(segment) ==
    LET s == Trim(segment)
    IN  IF ParsesAsInt(s) THEN Some(s) ELSE clean_int_str(s)

\* product_id: int accepts the segment (a str is validated as an int when
\* the text parsed for it is the text of an integer)
IsInt(segment) == IntText(segment).some /\ ParsesAsInt(IntText(segment).text)

RECURSIVE DigitsValue(_)
DigitsValue(digits) ==
    IF digits = <<>> THEN 0
    ELSE 10 * DigitsValue(SubSeq(digits, 1, Len(digits) - 1)) + DigitValue(digits[Len(digits)])

\* the int the segment is validated to
ParseInt(segment) ==
    LET s == IntText(segment).text
    IN  IF Head(s) = "-" THEN -DigitsValue(Unsigned(s)) ELSE DigitsValue(Unsigned(s))

\* the path segment of the lookup route
LookupSegment == <<"l", "o", "o", "k", "u", "p">>

\* the GET routes with one segment after /api/products, in the order their
\* decorators register them: {product_id} before lookup
Routes == <<"get_product", "lookup_product">>

\* a path parameter matches any segment, a literal only itself
PathMatches(route, segment) ==
    IF route = "get_product" THEN segment # <<>> ELSE segment = LookupSegment

\* the router hands the request to the first route whose path matches
Dispatch(segment) ==
    Routes[CHOOSE i \in 1..Len(Routes) :
              /\ PathMatches(Routes[i], segment)
              /\ \A j \in 1..(i - 1) : ~PathMatches(Routes[j], segment)]

\* GET /api/products/<segment>?barcode=<barcode>: a segment that is not an
\* int fails the validation of product_id with HTTP 422 before the handler
\* is called
GetProductsPath(k, segment, barcode) ==
    IF Dispatch(segment) = "get_product"
    THEN IF IsInt(segment)
         THEN get_product(k, ParseInt(segment))
         ELSE /\ Ready(k)
              /\ UNCHANGED <<products, inventory_movements, tx_products, tx_movements, lock>>
              /\ ReturnClosed(k, "get", 422)
    ELSE lookup_product(k, barcode)

----------------------------------------------------------------------------
(* Specifications *)

\* the statements of the handlers that are under way
Statements ==
    \/ \E k \in Callers : UpdateStock(k)
    \/ \E k \in Callers : UpdateStockTimesOut(k)
    \/ \E k \in Callers : InsertMovement(k)
    \/ \E k \in Callers : InsertFails(k)
    \/ \E k \in Callers : Commit(k)
    \/ \E k \in Callers : Respond(k)
    \/ \E n \in 0..MaxLeaked, release \in BOOLEAN : Collect(n, release)

\* The stock mutation engine: one product, created with a stock of 1, and
\* the three stock handlers run by all threads.
InitEngine ==
    /\ products = <<ProductValues(ProductIn(None, 545, 1, 0, TRUE))>>
    /\ inventory_movements = <<>>
    /\ tx_products = products
    /\ tx_movements = <<>>
    /\ lock = NoHolder
    /\ call = [k \in Callers |-> IdleCall]
    /\ response = NoResponse
    /\ body = NoBody
    /\ leaked = 0

\* the ids the requests of the engine name: the product, and an id that no
\* product has
EngineIds == {1, 2}

NextEngine ==
    \/ \E k \in Callers, id \in EngineIds, d \in StockAdjustIn : adjust_stock(k, id, d)
    \/ \E k \in Callers, id \in EngineIds, d \in StockAdjustIn : receive_stock(k, id, d)
    \/ \E k \in Callers, id \in EngineIds, n \in StockSetIn : set_stock(k, id, n)
    \/ Statements

SpecEngine == InitEngine /\ [][NextEngine]_vars

\* the thread that takes the requests of a program run one request at a time
Serial == {"t1"}

\* The catalog: create run by all threads, update and deactivate by one.
NextCatalog ==
    \/ \E k \in Callers, p \in CatalogInputs : create_product(k, p)
    \/ \E k \in Serial, id \in ProductIds, p \in CatalogInputs : update_product(k, id, p)
    \/ \E k \in Serial : UpdateProduct(k)
    \/ \E k \in Serial, id \in ProductIds : deactivate_product(k, id)
    \/ \E k \in Serial : DeactivateProduct(k)
    \/ \E k \in Callers : Commit(k)
    \/ \E k \in Callers : Respond(k)
    \/ \E n \in 0..MaxLeaked, release \in BOOLEAN : Collect(n, release)

SpecCatalog == Init /\ [][NextCatalog]_vars

\* Every handler that writes, on a store that starts empty: create and the
\* stock handlers run by all threads, update and deactivate by one.
Next ==
    \/ \E k \in Callers, p \in ProductInputs : create_product(k, p)
    \/ \E k \in Serial, id \in ProductIds, p \in ProductInputs : update_product(k, id, p)
    \/ \E k \in Serial : UpdateProduct(k)
    \/ \E k \in Serial, id \in ProductIds : deactivate_product(k, id)
    \/ \E k \in Serial : DeactivateProduct(k)
    \/ \E k \in Callers, id \in ProductIds, d \in StockAdjustIn : adjust_stock(k, id, d)
    \/ \E k \in Callers, id \in ProductIds, d \in StockAdjustIn : receive_stock(k, id, d)
    \/ \E k \in Callers, id \in ProductIds, n \in StockSetIn : set_stock(k, id, n)
    \/ Statements

Spec == Init /\ [][Next]_vars

\* The shop: a store of two products, the first with barcode "a", any of the
\* stocks and a reorder level of 1, the second without barcode, with a stock
\* of 1 and a reorder level of 0; the requests arrive one at a time, restock
\* either product and deactivate it.
InitShop ==
    /\ \E s \in StockSetIn :
          products = <<ProductValues(ProductIn(Some(<<"a">>), 545, s, 1, TRUE)),
                       ProductValues(ProductIn(None, 545, 1, 0, TRUE))>>
    /\ inventory_movements = <<>>
    /\ tx_products = products
    /\ tx_movements = <<>>
    /\ lock = NoHolder
    /\ call = [k \in Callers |-> IdleCall]
    /\ response = NoResponse
    /\ body = NoBody
    /\ leaked = 0

\* the ids of the two products
ShopIds == {1, 2}

NextShop ==
    \/ \E k \in Serial, id \in ShopIds : deactivate_product(k, id)
    \/ \E k \in Serial : DeactivateProduct(k)
    \/ \E k \in Serial, id \in ShopIds, d \in StockAdjustIn : adjust_stock(k, id, d)
    \/ \E k \in Serial, id \in ShopIds, d \in StockAdjustIn : receive_stock(k, id, d)
    \/ \E k \in Serial, id \in ShopIds, n \in StockSetIn : set_stock(k, id, n)
    \/ \E k \in Serial : UpdateStock(k)
    \/ \E k \in Serial : InsertMovement(k)
    \/ \E k \in Serial : Commit(k)
    \/ \E k \in Serial : Respond(k)

SpecShop == InitShop /\ [][NextShop]_vars

\* The queries: the same store, read by the GET handlers while requests
\* restock and deactivate the first product.

\* ids a GET request may name: 0 is the id of no row
RequestIds == {0} \cup ShopIds

\* one digit per id
IdSegment(id) == <<DigitChars[id + 1]>>

\* other texts of an id: "-1", "+1", " 1", "1.0", "1_0", "1.", "0__1", "-_1",
\* "1_0.0"
IdTexts ==
    {<<"-", "1">>, <<"+", "1">>, <<" ", "1">>, <<"1", ".", "0">>, <<"1", "_", "0">>,
     <<"1", ".">>, <<"0", "_", "_", "1">>, <<"-", "_", "1">>, <<"1", "_", "0", ".", "0">>}

PathSegments == {IdSegment(id) : id \in RequestIds} \cup IdTexts \cup {LookupSegment}

\* barcodes looked up: " a" and "b"
LookupInputs == {<<" ", "a">>, <<"b">>}

\* filters of a listing: q absent, "A" or "_", category absent or " c"
QInputs == {None, Some(<<"A">>), Some(<<"_">>)}
CategoryInputs == {None, Some(<<" ", "c">>)}
LimitInputs == {0, 200}

\* the id of the product that is restocked and deactivated
RestockedIds == {1}

NextQuery ==
    \/ \E k \in Serial, segment \in PathSegments, b \in LookupInputs :
          GetProductsPath(k, segment, b)
    \/ \E k \in Serial, a \in BOOLEAN, l \in BOOLEAN, q \in QInputs,
           c \in CategoryInputs, n \in LimitInputs : list_products(k, a, l, q, c, n)
    \/ \E k \in Serial, id \in RequestIds, n \in LimitInputs : inventory_history(k, id, n)
    \/ \E k \in Serial : SelectMovements(k)
    \/ \E k \in Serial, id \in RestockedIds : deactivate_product(k, id)
    \/ \E k \in Serial : DeactivateProduct(k)
    \/ \E k \in Serial, id \in RestockedIds, d \in StockAdjustIn : adjust_stock(k, id, d)
    \/ \E k \in Serial, id \in RestockedIds, d \in StockAdjustIn : receive_stock(k, id, d)
    \/ \E k \in Serial, id \in RestockedIds, n \in StockSetIn : set_stock(k, id, n)
    \/ \E k \in Serial : UpdateStock(k)
    \/ \E k \in Serial : InsertMovement(k)
    \/ \E k \in Serial : Commit(k)
    \/ \E k \in Serial : Respond(k)
    \/ \E n \in 0..MaxLeaked, release \in BOOLEAN : Collect(n, release)

SpecQuery == InitShop /\ [][NextQuery]_vars

\* The listing: a store of one product more than a listing returns at most.
\* The products have no barcode, a stock of 0 and a reorder level of 0, but
\* the newest one: barcode "a", a stock of 1 and a reorder level of 1.  The
\* requests arrive one at a time, list the products and restock the newest.
InitListing ==
    /\ products = [i \in 1..(ListCeiling + 1) |->
                      IF i = ListCeiling + 1
                      THEN ProductValues(ProductIn(Some(<<"a">>), 545, 1, 1, TRUE))
                      ELSE ProductValues(ProductIn(None, 545, 0, 0, TRUE))]
    /\ inventory_movements = <<>>
    /\ tx_products = products
    /\ tx_movements = <<>>
    /\ lock = NoHolder
    /\ call = [k \in Callers |-> IdleCall]
    /\ response = NoResponse
    /\ body = NoBody
    /\ leaked = 0

\* the id of the product that is restocked: the newest
ListingIds == {ListCeiling + 1}

\* the limits the listings ask for: the ceiling and the number of products
ListingLimits == {ListCeiling, ListCeiling + 1}

NextListing ==
    \/ \E k \in Serial, l \in BOOLEAN, n \in ListingLimits :
          list_products(k, FALSE, l, None, None, n)
    \/ \E k \in Serial, id \in ListingIds, d \in StockAdjustIn : adjust_stock(k, id, d)
    \/ \E k \in Serial, id \in ListingIds, d \in StockAdjustIn : receive_stock(k, id, d)
    \/ \E k \in Serial, id \in ListingIds, n \in StockSetIn : set_stock(k, id, n)
    \/ \E k \in Serial : UpdateStock(k)
    \/ \E k \in Serial : InsertMovement(k)
    \/ \E k \in Serial : Commit(k)
    \/ \E k \in Serial : Respond(k)

SpecListing == InitListing /\ [][NextListing]_vars

----------------------------------------------------------------------------
(* Properties *)

Last(seq) == seq[Len(seq)]

\* the movements of one product, in ascending id order
MovementsOf(product_id) ==
    SelectSeq(inventory_movements, LAMBDA m : m.product_id = product_id)

RECURSIVE SumDelta(_)
SumDelta(ms) == IF ms = <<>> THEN 0 ELSE Head(ms).delta_qty + SumDelta(Tail(ms))

\* replaying ms from the running total sum gives each entry's resulting_qty
RECURSIVE ReplayMatches(_, _)
ReplayMatches(ms, sum) ==
    \/ ms = <<>>
    \/ /\ sum + Head(ms).delta_qty = Head(ms).resulting_qty
       /\ ReplayMatches(Tail(ms), sum + Head(ms).delta_qty)

\* the step in which thread k commits the transaction of a stock handler
StockCommit(k) ==
    /\ call[k].op \in StockOps
    /\ call[k].pc = "written"
    /\ call'[k].pc = "committed"

\* the step in which thread k's stock handler, its transaction committed,
\* returns
StockRespond(k) ==
    /\ call[k].op \in StockOps
    /\ call[k].pc = "committed"
    /\ call'[k].pc = "idle"

\* the step in which thread k's handler sends its SELECT and goes on to write
StockRead(k) ==
    /\ call[k].pc = "idle"
    /\ call'[k].pc = "read"

\* C1: every product's stock_qty is >= 0 in every reachable state, committed
\* or inside the open transaction, whatever adjust, receive and set calls
\* the threads interleave.
C1_StockNeverNegative ==
    /\ \A i \in 1..Len(products) : products[i].stock_qty >= 0
    /\ \A i \in 1..Len(tx_products) : tx_products[i].stock_qty >= 0

\* C1 witness: two withdrawals of 1 committed one after the other, both
\* leaving 0: each was computed from a stock of 1, together they exceed it.
C1_Witness ==
    /\ Len(inventory_movements) = 2
    /\ \A j \in 1..2 :
         inventory_movements[j] = Movement(1, "adjust", -1, 0)
    /\ products[1].stock_qty = 0

\* C2: for every product, replaying its movements in ascending id order from
\* 0 gives each entry's resulting_qty, and the total is the current stock_qty.
C2_LedgerReplaysToStock ==
    \A i \in 1..Len(products) :
        /\ ReplayMatches(MovementsOf(i), 0)
        /\ SumDelta(MovementsOf(i)) = products[i].stock_qty

\* C3: every step that changes the stock_qty of an existing product appends,
\* in the same step, exactly one movement of that product whose resulting_qty
\* is the new stock_qty.
C3_StockChangeAppendsMovement ==
    [][\A i \in 1..Len(products) :
          products'[i].stock_qty # products[i].stock_qty =>
              /\ Len(inventory_movements') = Len(inventory_movements) + 1
              /\ SubSeq(inventory_movements', 1, Len(inventory_movements)) = inventory_movements
              /\ Last(inventory_movements').product_id = i
              /\ Last(inventory_movements').resulting_qty = products'[i].stock_qty]_vars

\* C4: concurrent stock calls on a product are serialized: what each call
\* commits is what the call, run alone on the stock committed just before,
\* would have written (new quantity and movement delta).
C4_CommitsAreSerial ==
    [][\A k \in Callers :
          StockCommit(k) =>
              LET id == call[k].product_id
                  before == products[id].stock_qty
                  after == IF call[k].op = "set" THEN call[k].qty ELSE before + call[k].qty
              IN  /\ products'[id].stock_qty = after
                  /\ inventory_movements' = Append(inventory_movements,
                         Movement(id, call[k].op, after - before, after))]_vars

\* C5: the stock UPDATE and the movement INSERT of one call reach the
\* committed tables together or not at all: a step that changes a committed
\* table is the commit of one call and applies both of its writes.
C5_AllOrNothing ==
    [][(products' # products \/ inventory_movements' # inventory_movements) =>
          \E k \in Callers :
              /\ StockCommit(k)
              /\ products' = SetStockQty(products, call[k].product_id, call[k].new_qty)
              /\ inventory_movements' = Append(inventory_movements,
                     Movement(call[k].product_id, call[k].op,
                              MovementDelta(call[k]), call[k].new_qty))]_vars

\* C5 witness: a call's UPDATE is in its transaction, its INSERT has raised,
\* and the committed tables hold neither write.
C5_Witness ==
    /\ lock = Orphan
    /\ response.status = 500
    /\ tx_products # products
    /\ tx_movements = inventory_movements

\* the tables, committed and in the open transaction
tables == <<products, inventory_movements, tx_products, tx_movements>>

\* no handler that is running holds the write lock
NoWriterRunning == lock \notin Callers

\* the tables and the write lock
store == <<products, inventory_movements, tx_products, tx_movements, lock>>

\* C6: an adjust of an existing product whose stock_qty plus delta_qty is
\* below 0 is answered 400 and leaves the product, the ledger and the
\* connections as they were; no adjust with such a delta goes on to write.
C6_AdjustBelowZeroRejected ==
    [][/\ \A k \in Callers, id \in EngineIds, d \in StockAdjustIn :
            (/\ id \in 1..Len(products)
             /\ products[id].stock_qty + d < 0
             /\ adjust_stock(k, id, d))
            => /\ response' = [op |-> "adjust", status |-> 400]
               /\ call'[k] = IdleCall
               /\ UNCHANGED <<store, leaked>>
       /\ \A k \in Callers :
            (StockRead(k) /\ call'[k].op = "adjust")
            => products[call'[k].product_id].stock_qty + call'[k].qty >= 0
       /\ response'.status = 400 => UNCHANGED store]_vars

\* C6 witness: an adjust has been answered 400 on a product whose stock is 0
\* and whose ledger holds an entry.
C6_Witness ==
    /\ response = [op |-> "adjust", status |-> 400]
    /\ products[1].stock_qty = 0
    /\ Len(inventory_movements) > 0
    /\ \A k \in Callers : call[k] = IdleCall

\* C7: a receive with delta_qty <= 0 is answered 400 for any product id,
\* existing or not, without opening a connection, and leaves the products
\* and the ledger as they were; no receive with such a delta goes on.
C7_ReceiveNotPositiveRejected ==
    [][/\ \A k \in Callers, id \in EngineIds, d \in StockAdjustIn :
            (d <= 0 /\ receive_stock(k, id, d))
            => /\ response' = [op |-> "receive", status |-> 400]
               /\ call'[k] = IdleCall
               /\ UNCHANGED <<store, leaked>>
       /\ \A k \in Callers :
            (StockRead(k) /\ call'[k].op = "receive") => call'[k].qty > 0]_vars

\* C7 witness: a receive has been answered 400.
C7_Witness ==
    /\ response = [op |-> "receive", status |-> 400]
    /\ \A k \in Callers : call[k] = IdleCall

\* C8: a set to n leaves stock_qty = n and appends one movement of type set
\* with resulting_qty = n and delta_qty = n - c, c being the stock_qty
\* committed immediately before the set takes effect.
C8_SetRecordsTargetMinusPrevious ==
    [][\A k \in Callers :
          (StockCommit(k) /\ call[k].op = "set") =>
              LET id == call[k].product_id
                  n == call[k].qty
                  c == products[id].stock_qty
              IN  /\ products'[id].stock_qty = n
                  /\ inventory_movements' =
                         Append(inventory_movements, Movement(id, "set", n - c, n))]_vars

\* C9: an adjust or receive of d that finds stock_qty = c and succeeds
\* (c + d >= 0, and d > 0 for receive) leaves stock_qty = c + d and appends
\* exactly one movement: its type the operation, its delta_qty d, its
\* resulting_qty c + d.
C9_AdjustReceiveAddDelta ==
    [][\A k \in Callers :
          /\ StockRead(k) =>
                call'[k].current = products[call'[k].product_id].stock_qty
          /\ (StockCommit(k) /\ call[k].op \in {"adjust", "receive"}) =>
                LET id == call[k].product_id
                    c == call[k].current
                    d == call[k].qty
                IN  /\ c + d >= 0
                    /\ call[k].op = "receive" => d > 0
                    /\ products'[id].stock_qty = c + d
                    /\ inventory_movements' =
                           Append(inventory_movements, Movement(id, call[k].op, d, c + d))
          /\ (StockRespond(k) /\ call[k].op \in {"adjust", "receive"}) =>
                response' = [op |-> call[k].op, status |-> 200]]_vars

\* C9 witness: a receive of 1 on a stock of 1, then an adjust of -1.
C9_Witness ==
    /\ inventory_movements = <<Movement(1, "receive", 1, 2), Movement(1, "adjust", -1, 1)>>
    /\ products[1].stock_qty = 1

\* no two rows of a table share a non-NULL barcode
UniqueBarcodes(rows) ==
    \A i, j \in 1..Len(rows) :
        (i # j /\ rows[i].barcode.some) => rows[i].barcode # rows[j].barcode

\* C10: no two products, active or not, share a non-null barcode; while no
\* other handler is writing, a create whose barcode is that of an existing
\* product is answered 409 and adds no product, and a create without
\* barcode is accepted whatever the products are and whatever calls came
\* before.
C10_BarcodesUnique ==
    [][/\ UniqueBarcodes(products')
       /\ \A k \in Callers, p \in CatalogInputs :
            (create_product(k, p) /\ NoWriterRunning) =>
                LET b == StripOrNone(p.barcode)
                IN  /\ (b.some /\ \E i \in 1..Len(products) : products[i].barcode = b)
                       => /\ response' = [op |-> "create", status |-> 409]
                          /\ call'[k] = IdleCall
                          /\ UNCHANGED tables
                    /\ ~b.some
                       => /\ call'[k].pc = "written"
                          /\ Len(tx_products') = Len(products) + 1
                          /\ Last(tx_products').barcode = None
       /\ \A k \in Callers :
            (call[k].op = "create" /\ call[k].pc = "written" /\ call'[k].pc = "committed")
            => /\ products' = tx_products
               /\ Len(products') = Len(products) + 1]_vars

\* an optional text as the claim wants it stored: absent, or trimmed and
\* not empty
Normalised(o) == o.some => (o.text # <<>> /\ strip(o.text) = o.text)

\* a submitted optional text that is empty once trimmed: "" or spaces only
EmptyWhenTrimmed(o) == o.some /\ strip(o.text) = <<>>

\* C11: on create and on update the stored barcode, sku and category are
\* trimmed and, when empty after trimming, absent; a create whose barcode is
\* "" or spaces only is accepted whatever the products are and stores an
\* absent barcode.
C11_EmptyTextStoredAbsent ==
    [][/\ \A i \in 1..Len(products') :
            /\ Normalised(products'[i].barcode)
            /\ Normalised(products'[i].sku)
            /\ Normalised(products'[i].category)
       /\ \A k \in Callers, p \in CatalogInputs :
            (create_product(k, p) /\ EmptyWhenTrimmed(p.barcode))
            => /\ call'[k].pc = "written"
               /\ Last(tx_products').barcode = None]_vars

\* the step in which thread k commits the transaction of a deactivate
DeactivateCommit(k) ==
    /\ call[k].op = "deactivate"
    /\ call[k].pc = "written"
    /\ call'[k].pc = "committed"

\* C12: while no other handler is writing, a deactivate of an existing
\* product goes through whether the product is active or not, whatever calls
\* came before, and is answered 200; it leaves active = 0 and every other
\* column of the product, every other product and the ledger as they were,
\* so on an inactive product it changes nothing.
C12_DeactivateIdempotent ==
    [][/\ \A k \in Callers, id \in ProductIds :
            (deactivate_product(k, id) /\ id \in 1..Len(products))
            => call'[k].pc = "selected"
       /\ \A k \in Callers :
            (DeactivateProduct(k) /\ NoWriterRunning) => call'[k].pc = "written"
       /\ \A k \in Callers :
            DeactivateCommit(k) =>
                LET id == call[k].product_id
                IN  /\ Len(products') = Len(products)
                    /\ products'[id] = [products[id] EXCEPT !.active = 0]
                    /\ \A j \in 1..Len(products) : j # id => products'[j] = products[j]
                    /\ inventory_movements' = inventory_movements
                    /\ products[id].active = 0 => products' = products
       /\ \A k \in Callers :
            (call[k].op = "deactivate" /\ call[k].pc = "committed" /\ call'[k].pc = "idle")
            => response' = [op |-> "deactivate", status |-> 200]]_vars

\* the active products whose stored barcode is the text looked up
ActiveMatches(barcode) ==
    {i \in 1..Len(products) :
        products[i].active = 1 /\ products[i].barcode = Some(strip(barcode))}

\* C13: GET /api/products/lookup with a barcode is answered 200 with the
\* active product that holds the barcode, or with no product when no active
\* product holds it; the product returned is never inactive.
C13_LookupReturnsActiveMatch ==
    [][\A k \in Callers, b \in LookupInputs :
          GetProductsPath(k, LookupSegment, b) =>
              /\ response'.status = 200
              /\ IF ActiveMatches(b) = {}
                 THEN body' = <<>>
                 ELSE \E i \in ActiveMatches(b) :
                         body' = <<row_product_to_out(i, products[i])>>
              /\ \A j \in 1..Len(body') : body'[j].active]_vars

\* the step in which thread k commits the transaction of an update
UpdateCommit(k) ==
    /\ call[k].op = "update"
    /\ call[k].pc = "written"
    /\ call'[k].pc = "committed"

\* C14: an update of an id that no product has is answered 404; while no
\* other handler is writing, one whose barcode, not NULL, is the barcode of
\* another product is answered 409 and one whose barcode is the product's
\* own goes through, whatever calls came before; an update that is not
\* answered 200 leaves the tables as they were.
C14_UpdateErrors ==
    [][/\ \A k \in Callers, id \in ProductIds, p \in CatalogInputs :
            (update_product(k, id, p) /\ id \notin 1..Len(products))
            => /\ response' = [op |-> "update", status |-> 404]
               /\ call'[k] = IdleCall
               /\ UNCHANGED store
       /\ \A k \in Callers :
            (UpdateProduct(k) /\ NoWriterRunning) =>
                LET id == call[k].product_id
                    b == ProductValues(Head(call[k].payload)).barcode
                IN  /\ (b.some /\ \E j \in 1..Len(products) :
                                      j # id /\ products[j].barcode = b)
                       => /\ response' = [op |-> "update", status |-> 409]
                          /\ call'[k] = IdleCall
                          /\ UNCHANGED tables
                    /\ (b.some /\ products[id].barcode = b)
                       => /\ call'[k].pc = "written"
                          /\ tx_products'[id] = ProductValues(Head(call[k].payload))
       /\ \A k \in Callers :
            UpdateCommit(k) => products' = tx_products
       /\ (response'.op = "update" /\ response'.status # 200) => UNCHANGED tables]_vars

\* the ids of the products at or below their reorder level
AtOrBelowReorderLevel ==
    {i \in 1..Len(products) : products[i].stock_qty <= products[i].reorder_level}

\* what the claims say of the listing that thread k asks for with
\* low_stock_only, no other filter and limit n: it is answered 200 with the
\* products at or below their reorder level, each once and no other, with
\* their current columns
ListsLowStock(k, n) ==
    list_products(k, FALSE, TRUE, None, None, n) =>
        /\ response' = [op |-> "list", status |-> 200]
        /\ Len(body') = Cardinality(AtOrBelowReorderLevel)
        /\ {body'[j].id : j \in 1..Len(body')} = AtOrBelowReorderLevel
    /\ body[1].id = ListCeiling
    /\ inventory_movements # <<>>
    /\ Last(inventory_movements) = Movement(ListCeiling + 1, "receive", 1, 2)
    /\ products[ListCeiling + 1].stock_qty = 2

\* C16: when every call has returned, no connection a call opened is still
\* open, whichever way the calls ended.
C16_ConnectionsReleased ==
    (\A k \in Callers : Ready(k)) => leaked = 0

\* C17: every step keeps every movement as it is and at its id, so the ledger
\* only grows at its end; it keeps every product row, active or not; and
\* the product_id of every movement is the id of a product.
C17_LedgerAppendOnly ==
    [][/\ Len(inventory_movements') >= Len(inventory_movements)
       /\ SubSeq(inventory_movements', 1, Len(inventory_movements)) = inventory_movements
       /\ Len(products') >= Len(products)
       /\ \A j \in 1..Len(inventory_movements') :
            inventory_movements'[j].product_id \in 1..Len(products')]_vars

\* C17 witness: a product with movements in the ledger has been deactivated.
C17_Witness ==
    /\ response = [op |-> "deactivate", status |-> 200]
    /\ products[1].active = 0
    /\ Len(inventory_movements) = MaxMovements
    /\ \A j \in 1..Len(inventory_movements) : inventory_movements[j].product_id = 1

\* C18: in every committed state, whatever calls the threads interleave, a
\* product that has movements holds the resulting_qty of the one with the
\* highest id as its stock_qty.
C18_StockIsLastResultingQty ==
    \A i \in 1..Len(products) :
        MovementsOf(i) # <<>> => products[i].stock_qty = Last(MovementsOf(i)).resulting_qty

\* C18 witness: two receives of 1 have both read a stock of 1 and committed
\* one after the other, each leaving 2.
C18_Witness ==
    /\ inventory_movements = <<Movement(1, "receive", 1, 2), Movement(1, "receive", 1, 2)>>
    /\ products[1].stock_qty = 2
    /\ lock = NoHolder

\* C19: the commit of an adjust, receive or set on product p writes p's
\* stock_qty, keeps every other column of p and every other product, and
\* appends one movement, of p, after the movements there were; the calls go
\* on to write whether p is active or not.
C19_StockCallsTouchOnlyTheirProduct ==
    [][/\ \A k \in Callers :
            StockCommit(k) =>
                LET id == call[k].product_id
                IN  /\ Len(products') = Len(products)
                    /\ products'[id] = [products[id] EXCEPT !.stock_qty = call[k].new_qty]
                    /\ \A j \in 1..Len(products) : j # id => products'[j] = products[j]
                    /\ Len(inventory_movements') = Len(inventory_movements) + 1
                    /\ SubSeq(inventory_movements', 1, Len(inventory_movements))
                          = inventory_movements
                    /\ Last(inventory_movements').product_id = id
       /\ \A k \in Callers, id \in ShopIds, d \in StockAdjustIn :
            /\ (adjust_stock(k, id, d) /\ products[id].stock_qty + d >= 0)
                  => call'[k].pc = "read" /\ call'[k].new_qty = products[id].stock_qty + d
            /\ (receive_stock(k, id, d) /\ d > 0)
                  => call'[k].pc = "read" /\ call'[k].new_qty = products[id].stock_qty + d
       /\ \A k \in Callers, id \in ShopIds, n \in StockSetIn :
            set_stock(k, id, n) => call'[k].pc = "read" /\ call'[k].new_qty = n]_vars

\* C19 witness: a stock call is about to commit on a deactivated product
\* while the other product, active, has a movement in the ledger.
C19_Witness ==
    \E k \in Callers :
        /\ call[k].op \in StockOps
        /\ call[k].pc = "written"
        /\ products[call[k].product_id].active = 0
        /\ \E j \in 1..Len(inventory_movements) :
              /\ inventory_movements[j].product_id # call[k].product_id
              /\ products[inventory_movements[j].product_id].active = 1

====
